---- MODULE Spec2Model ----
(***************************************************************************)
(* Model of the goqs query-string codec: Decoder.Parse (parseValues,       *)
(* parseKeys, merge, objToArray) and Encoder.Stringify.                    *)
(*                                                                         *)
(* Go strings are TLA+ strings; positions are Go's 0-based offsets.        *)
(* A Go interface{} value is a record with a kind tag:                     *)
(*   nil | str | bool | arr ([]interface{}) | map (QSType) | panic         *)
(* "panic" stands for a run-time abort of the Go code and carries the      *)
(* reason; it propagates through every caller up to Parse.                 *)
(***************************************************************************)
EXTENDS Integers, Sequences, FiniteSets, TLC

-----------------------------------------------------------------------------
(* Values                                                                  *)

Nil == [kind |-> "nil", str |-> "", arr |-> <<>>, map |-> <<>>]

StrV(s) == [kind |-> "str", str |-> s, arr |-> <<>>, map |-> <<>>]

BoolTrue == [kind |-> "bool", str |-> "true", arr |-> <<>>, map |-> <<>>]

BoolFalse == [kind |-> "bool", str |-> "false", arr |-> <<>>, map |-> <<>>]

\* a Go int; str is its decimal text
IntV(n) == [kind |-> "int", str |-> n, arr |-> <<>>, map |-> <<>>]

ArrV(a) == [kind |-> "arr", str |-> "", arr |-> a, map |-> <<>>]

MapV(m) == [kind |-> "map", str |-> "", arr |-> <<>>, map |-> m]

PanicV(why) == [kind |-> "panic", str |-> why, arr |-> <<>>, map |-> <<>>]

IsPanic(v) == v.kind = "panic"

\* keys of a QSType (map[interface{}]interface{}): a Go string or a Go int
StrKey(s) == [int |-> FALSE, i |-> 0, s |-> s]

IntKey(n) == [int |-> TRUE, i |-> n, s |-> ""]

EmptyMap == <<>>

Keys(m) == DOMAIN m

\* m[k] = v on a Go map
Put(m, k, v) == [x \in (DOMAIN m) \cup {k} |-> IF x = k THEN v ELSE m[x]]

\* the first panic among the elements of a sequence of values, if any
FirstPanic(vs) ==
  IF \E i \in 1..Len(vs) : IsPanic(vs[i])
  THEN vs[CHOOSE i \in 1..Len(vs) : IsPanic(vs[i]) /\ \A j \in 1..(i-1) : ~IsPanic(vs[j])]
  ELSE Nil

-----------------------------------------------------------------------------
(* Go string primitives used by the decoder                                *)

\* s[a:b]
Slice(s, a, b) == SubSeq(s, a + 1, b)

\* s[i] as a one-character string
At(s, i) == SubSeq(s, i + 1, i + 1)

HasPrefixAt(s, sub, i) ==
  /\ i + Len(sub) <= Len(s)
  /\ Slice(s, i, i + Len(sub)) = sub

RECURSIVE IndexFrom(_, _, _)
IndexFrom(s, sub, i) ==
  IF i + Len(sub) > Len(s) THEN -1
  ELSE IF HasPrefixAt(s, sub, i) THEN i
  ELSE IndexFrom(s, sub, i + 1)

\* strings.Index
Index(s, sub) == IndexFrom(s, sub, 0)

\* strings.Contains
Contains(s, sub) == Index(s, sub) # -1

\* strings.Cut, the part before the separator
CutBefore(s, sep) == IF Index(s, sep) = -1 THEN s ELSE Slice(s, 0, Index(s, sep))

RECURSIVE ReplaceAll(_, _, _)
ReplaceAll(s, old, new) ==
  IF Index(s, old) = -1 THEN s
  ELSE Slice(s, 0, Index(s, old)) \o new
       \o ReplaceAll(Slice(s, Index(s, old) + Len(old), Len(s)), old, new)

\* strings.SplitN for a non-empty separator: n = 0 gives no part, n < 0
\* every part, n > 0 at most n parts, the last one being the unsplit rest
RECURSIVE SplitN(_, _, _)
SplitN(s, sep, n) ==
  IF n = 0 THEN <<>>
  ELSE IF n = 1 \/ Index(s, sep) = -1 THEN <<s>>
  ELSE <<Slice(s, 0, Index(s, sep))>>
       \o SplitN(Slice(s, Index(s, sep) + Len(sep), Len(s)), sep, IF n < 0 THEN n ELSE n - 1)

Digits == {"0", "1", "2", "3", "4", "5", "6", "7", "8", "9"}

DigitVal(c) ==
  CASE c = "0" -> 0 [] c = "1" -> 1 [] c = "2" -> 2 [] c = "3" -> 3 [] c = "4" -> 4
    [] c = "5" -> 5 [] c = "6" -> 6 [] c = "7" -> 7 [] c = "8" -> 8 [] c = "9" -> 9

AllDigits(s) == Len(s) > 0 /\ \A i \in 0..(Len(s) - 1) : At(s, i) \in Digits

RECURSIVE DecimalVal(_)
DecimalVal(s) ==
  IF Len(s) = 0 THEN 0
  ELSE 10 * DecimalVal(Slice(s, 0, Len(s) - 1)) + DigitVal(At(s, Len(s) - 1))

\* strconv.Atoi: an optional sign followed by decimal digits
AtoiOk(s) ==
  \/ AllDigits(s)
  \/ Len(s) > 1 /\ At(s, 0) \in {"+", "-"} /\ AllDigits(Slice(s, 1, Len(s)))

Atoi(s) ==
  IF AllDigits(s) THEN DecimalVal(s)
  ELSE IF At(s, 0) = "-" THEN 0 - DecimalVal(Slice(s, 1, Len(s)))
  ELSE DecimalVal(Slice(s, 1, Len(s)))

\* strconv.Itoa for the non-negative positions the encoder prints
RECURSIVE Itoa(_)
Itoa(n) ==
  IF n < 10 THEN CHOOSE c \in Digits : DigitVal(c) = n
  ELSE Itoa(n \div 10) \o (CHOOSE c \in Digits : DigitVal(c) = n % 10)

-----------------------------------------------------------------------------
(* URI codec                                                               *)

HexDigits == Digits \cup {"A", "B", "C", "D", "E", "F", "a", "b", "c", "d", "e", "f"}

\* the escapes of the characters of the model's alphabet
EscapeOf(c) ==
  CASE c = " " -> "%20" [] c = "%" -> "%25" [] c = "&" -> "%26" [] c = "+" -> "%2B"
    [] c = "," -> "%2C" [] c = "=" -> "%3D" [] c = "?" -> "%3F" [] c = "[" -> "%5B"
    [] c = "]" -> "%5D" [] c = ";" -> "%3B"
    [] OTHER -> c

Escaped == {" ", "%", "&", "+", ",", "=", "?", "[", "]", ";"}

UnescapeOf(code) ==
  IF \E c \in Escaped : EscapeOf(c) = code
  THEN CHOOSE c \in Escaped : EscapeOf(c) = code
  ELSE IF code = "%2E" THEN "."
  ELSE "?"

\* url.QueryUnescape fails when a '%' is not followed by two hex digits
RECURSIVE UnescapeOk(_)
UnescapeOk(s) ==
  IF Len(s) = 0 THEN TRUE
  ELSE IF At(s, 0) = "%"
       THEN /\ Len(s) >= 3
            /\ At(s, 1) \in HexDigits
            /\ At(s, 2) \in HexDigits
            /\ UnescapeOk(Slice(s, 3, Len(s)))
       ELSE UnescapeOk(Slice(s, 1, Len(s)))

RECURSIVE Unescape(_)
Unescape(s) ==
  IF Len(s) = 0 THEN ""
  ELSE IF At(s, 0) = "%" THEN UnescapeOf(Slice(s, 0, 3)) \o Unescape(Slice(s, 3, Len(s)))
  ELSE IF At(s, 0) = "+" THEN " " \o Unescape(Slice(s, 1, Len(s)))
  ELSE At(s, 0) \o Unescape(Slice(s, 1, Len(s)))

decodeURI(v) ==
  LET w == ReplaceAll(v, "+", " ")
  IN IF UnescapeOk(w) THEN Unescape(w) ELSE w

-----------------------------------------------------------------------------
(* Decoder: parseValues                                                    *)

\* reflect.TypeOf(v).Kind() aborts on a nil interface
IsArrayLikePanics(v) == v.kind = "nil"

IsArrayLike(v) == v.kind = "arr"

RECURSIVE split(_, _)
split(str, sep) ==
  IF Index(str, sep) = -1 THEN <<StrV(str)>>
  ELSE <<StrV(Slice(str, 0, Index(str, sep)))>>
       \o split(Slice(str, Index(str, sep) + Len(sep), Len(str)), sep)

\* combineValue putting the later value in front of the earlier one
combineValueSwapped(v1, v2) ==
  IF IsArrayLikePanics(v1) \/ IsArrayLikePanics(v2)
  THEN PanicV("combineValue: reflect.TypeOf(nil).Kind()")
  ELSE IF IsArrayLike(v1)
       THEN IF IsArrayLike(v2) THEN ArrV(v2.arr \o v1.arr) ELSE ArrV(<<v2>> \o v1.arr)
       ELSE IF IsArrayLike(v2) THEN ArrV(Append(v2.arr, v1)) ELSE ArrV(<<v2, v1>>)

combineValue(v1, v2) ==
  IF IsArrayLikePanics(v1) \/ IsArrayLikePanics(v2)
  THEN PanicV("combineValue: reflect.TypeOf(nil).Kind()")
  ELSE IF IsArrayLike(v1)
       THEN IF IsArrayLike(v2) THEN ArrV(v1.arr \o v2.arr) ELSE ArrV(Append(v1.arr, v2))
       ELSE IF IsArrayLike(v2) THEN ArrV(<<v1>> \o v2.arr) ELSE ArrV(<<v1, v2>>)

\* parts[parameterLimit-1] is out of range when SplitN returns no part
partsPanics(d, str) ==
  /\ Len(SplitN(str, d.delimiter, d.parameterLimit)) = d.parameterLimit
  /\ d.parameterLimit - 1 \notin 0..(d.parameterLimit - 1)

\* the parts parseValues iterates over (the split and the cut of the last part)
partsOf(d, str) ==
  LET parts == SplitN(str, d.delimiter, d.parameterLimit)
  IN IF Len(parts) = d.parameterLimit
     THEN [i \in 1..Len(parts) |->
             IF i = d.parameterLimit THEN CutBefore(parts[i], d.delimiter) ELSE parts[i]]
     ELSE parts

stripPrefix(d, str) ==
  IF d.ignoreQueryPrefix /\ At(str, 0) = "?" THEN Slice(str, 1, Len(str)) ELSE str

\* key/value split position of one part (lines 137-141)
\* the split point taken at the first "=" whatever precedes it
splitPosFirstEquals(part) == Index(part, "=")

splitPos(part) ==
  IF Index(part, "]=") = -1 THEN Index(part, "=") ELSE Index(part, "]=") + 1

partKey(part) ==
  IF splitPos(part) = -1 THEN decodeURI(part) ELSE decodeURI(Slice(part, 0, splitPos(part)))

partVal(d, part) ==
  LET pos == splitPos(part)
      strv == decodeURI(Slice(part, pos + 1, Len(part)))
      val == IF pos = -1
             THEN IF ~d.strictNullHandling THEN StrV("") ELSE Nil
             ELSE IF d.comma /\ Contains(strv, ",") THEN ArrV(split(strv, ",")) ELSE StrV(strv)
  IN IF Contains(part, "[]=") /\ IsArrayLike(val) THEN ArrV(<<val>>) ELSE val

\* the loop of parseValues over parts[i..]: result is the map built so far
RECURSIVE parseValuesLoop(_, _, _, _)
parseValuesLoop(d, parts, i, result) ==
  IF i > Len(parts) THEN MapV(result)
  ELSE LET key == StrKey(partKey(parts[i]))
           val == partVal(d, parts[i])
       IN IF key \in DOMAIN result /\ d.duplicates = "combine"
          THEN IF IsPanic(combineValue(result[key], val))
               THEN combineValue(result[key], val)
               ELSE parseValuesLoop(d, parts, i + 1, Put(result, key, combineValue(result[key], val)))
          ELSE parseValuesLoop(d, parts, i + 1, Put(result, key, val))

parseValues(d, str) ==
  IF partsPanics(d, stripPrefix(d, str))
  THEN PanicV("parseValues: index out of range")
  ELSE parseValuesLoop(d, partsOf(d, stripPrefix(d, str)), 1, EmptyMap)

-----------------------------------------------------------------------------
(* Decoder: parseKeys                                                      *)

\* end of the run of characters outside `stop` that starts at offset i
RECURSIVE RunEnd(_, _, _)
RunEnd(s, i, stop) ==
  IF i >= Len(s) \/ At(s, i) \in stop THEN i ELSE RunEnd(s, i + 1, stop)

\* dotReg.ReplaceAllString(key, "[$1]") with dotReg = \.([^.[]+)
RECURSIVE dotToBracket(_)
dotToBracket(key) ==
  IF Len(key) = 0 THEN ""
  ELSE IF At(key, 0) = "." /\ RunEnd(key, 1, {".", "["}) > 1
       THEN "[" \o Slice(key, 1, RunEnd(key, 1, {".", "["})) \o "]"
            \o dotToBracket(Slice(key, RunEnd(key, 1, {".", "["}), Len(key)))
       ELSE At(key, 0) \o dotToBracket(Slice(key, 1, Len(key)))

\* bracketReg = (\[[^[\]]*]) matches at offset i
bracketAt(key, i) ==
  /\ i < Len(key)
  /\ At(key, i) = "["
  /\ RunEnd(key, i + 1, {"[", "]"}) < Len(key)
  /\ At(key, RunEnd(key, i + 1, {"[", "]"})) = "]"

\* bracketReg.FindAllStringIndex(key, n) from offset i: <<start, end>> pairs;
\* n < 0 means every match
RECURSIVE bracketLocs(_, _, _)
bracketLocs(key, i, n) ==
  IF n = 0 \/ i >= Len(key) THEN <<>>
  ELSE IF bracketAt(key, i)
       THEN <<<<i, RunEnd(key, i + 1, {"[", "]"}) + 1>>>>
            \o bracketLocs(key, RunEnd(key, i + 1, {"[", "]"}) + 1, IF n < 0 THEN n ELSE n - 1)
       ELSE bracketLocs(key, i + 1, n)

\* keySegments taking one bracket group fewer than depth
keySegmentsShort(d, key0) ==
  LET key == IF d.allowDots THEN dotToBracket(key0) ELSE key0
      loc == bracketLocs(key, 0, 1)
      locs == bracketLocs(key, 0, d.depth - 1)
      lastEnd == IF Len(locs) = 0 THEN loc[1][1] ELSE locs[Len(locs)][2]
  IN IF d.depth > 0 /\ Len(loc) > 0
     THEN <<Slice(key, 0, loc[1][1])>>
          \o [i \in 1..Len(locs) |-> Slice(key, locs[i][1], locs[i][2])]
          \o (IF lastEnd < Len(key) - 1
              THEN <<"[" \o Slice(key, lastEnd, Len(key)) \o "]">>
              ELSE <<>>)
     ELSE <<key>>

\* the segment list `keys` of parseKeys (lines 192-220)
keySegments(d, key0) ==
  LET key == IF d.allowDots THEN dotToBracket(key0) ELSE key0
      loc == bracketLocs(key, 0, 1)
      locs == bracketLocs(key, 0, d.depth)
      lastLoc == locs[Len(locs)]
  IN IF d.depth > 0 /\ Len(loc) > 0
     THEN <<Slice(key, 0, loc[1][1])>>
          \o [i \in 1..Len(locs) |-> Slice(key, locs[i][1], locs[i][2])]
          \o (IF lastLoc[2] < Len(key) - 1
              THEN <<"[" \o Slice(key, lastLoc[2], Len(key)) \o "]">>
              ELSE <<>>)
     ELSE <<key>>

concat(target, s) ==
  IF IsArrayLikePanics(s) THEN PanicV("concat: reflect.TypeOf(nil).Kind()")
  ELSE IF IsArrayLike(s) THEN ArrV(target \o s.arr)
  ELSE ArrV(Append(target, s))

\* one iteration of the leaf-to-root loop of parseKeys (lines 226-257)
wrapSegment(d, root, leaf) ==
  IF root = "[]" /\ d.parseArrays
  THEN IF d.allowEmptyArrays /\ leaf.kind = "nil" THEN ArrV(<<>>) ELSE concat(<<>>, leaf)
  ELSE IF Len(root) = 0 THEN PanicV("parseKeys: index out of range")
  ELSE LET cleanRoot == IF At(root, 0) = "[" /\ At(root, Len(root) - 1) = "]"
                        THEN Slice(root, 1, Len(root) - 1) ELSE root
           decodedRoot == IF d.decodeDotInKeys THEN ReplaceAll(cleanRoot, "%2E", ".") ELSE cleanRoot
       IN IF ~d.parseArrays /\ decodedRoot = ""
          THEN MapV(StrKey("0") :> leaf)
          ELSE IF /\ AtoiOk(decodedRoot)
                  /\ root # decodedRoot
                  /\ Atoi(decodedRoot) >= 0
                  /\ d.parseArrays
                  /\ Atoi(decodedRoot) <= d.arrayLimit
               THEN MapV(IntKey(Atoi(decodedRoot)) :> leaf)
               ELSE MapV(StrKey(decodedRoot) :> leaf)

RECURSIVE wrapAll(_, _, _, _)
wrapAll(d, keys, i, leaf) ==
  IF i = 0 \/ IsPanic(leaf) THEN leaf
  ELSE wrapAll(d, keys, i - 1, wrapSegment(d, keys[i], leaf))

parseKeys(d, key, val) ==
  LET leaf == wrapAll(d, keySegments(d, key), Len(keySegments(d, key)), val)
  IN IF IsPanic(leaf) THEN leaf
     ELSE IF leaf.kind # "map" THEN PanicV("parseKeys: type assertion leaf.(QSType)")
     ELSE leaf

-----------------------------------------------------------------------------
(* Decoder: merge and objToArray                                           *)

arrayToObj(arr) == [k \in {IntKey(i - 1) : i \in 1..Len(arr)} |-> arr[k.i + 1]]

\* a map whose entries hold a panic is the panic itself
MapOrPanic(m) ==
  IF \E k \in DOMAIN m : IsPanic(m[k])
  THEN m[CHOOSE k \in DOMAIN m : IsPanic(m[k])]
  ELSE MapV(m)

ArrOrPanic(a) == IF IsPanic(FirstPanic(a)) THEN FirstPanic(a) ELSE ArrV(a)

RECURSIVE merge(_, _)

\* merge with the m,m and m,a cases overwriting an existing entry instead of
\* merging into it
mergeClobber(target, source) ==
  IF source.kind = "nil" THEN target
  ELSE IF target.kind = "nil" THEN PanicV("merge: reflect.TypeOf(nil).Kind()")
  ELSE IF source.kind \notin {"map", "arr"}
  THEN CASE target.kind = "arr" -> ArrV(Append(target.arr, source))
         [] target.kind = "map" ->
              IF StrKey(source.str) \in DOMAIN target.map THEN target
              ELSE MapV(Put(target.map, StrKey(source.str), BoolTrue))
         [] OTHER -> ArrV(<<target, source>>)
  ELSE IF target.kind \notin {"map", "arr"} THEN concat(<<target>>, source)
  ELSE IF target.kind = "arr" /\ source.kind = "arr"
  THEN ArrOrPanic([i \in 1..(IF Len(source.arr) > Len(target.arr)
                             THEN Len(source.arr) ELSE Len(target.arr)) |->
                     IF i > Len(source.arr) THEN target.arr[i]
                     ELSE IF i <= Len(target.arr) THEN merge(target.arr[i], source.arr[i])
                     ELSE source.arr[i]])
  ELSE LET mergeTarget == IF target.kind = "arr" THEN arrayToObj(target.arr) ELSE target.map
           mapS == IF source.kind = "arr" THEN arrayToObj(source.arr) ELSE source.map
       IN MapOrPanic([k \in (DOMAIN mergeTarget) \cup (DOMAIN mapS) |->
                       IF k \notin DOMAIN mapS THEN mergeTarget[k] ELSE mapS[k]])

\* merge setting tMap[source] = true also when the key exists already
mergeOverwrite(target, source) ==
  IF source.kind = "nil" THEN target
  ELSE IF target.kind = "nil" THEN PanicV("merge: reflect.TypeOf(nil).Kind()")
  ELSE IF source.kind \notin {"map", "arr"}
  THEN CASE target.kind = "arr" -> ArrV(Append(target.arr, source))
         [] target.kind = "map" ->
              MapV(Put(target.map, StrKey(source.str), BoolTrue))
         [] OTHER -> ArrV(<<target, source>>)
  ELSE IF target.kind \notin {"map", "arr"} THEN concat(<<target>>, source)
  ELSE IF target.kind = "arr" /\ source.kind = "arr"
  THEN ArrOrPanic([i \in 1..(IF Len(source.arr) > Len(target.arr)
                             THEN Len(source.arr) ELSE Len(target.arr)) |->
                     IF i > Len(source.arr) THEN target.arr[i]
                     ELSE IF i <= Len(target.arr) THEN merge(target.arr[i], source.arr[i])
                     ELSE source.arr[i]])
  ELSE LET mergeTarget == IF target.kind = "arr" THEN arrayToObj(target.arr) ELSE target.map
           mapS == IF source.kind = "arr" THEN arrayToObj(source.arr) ELSE source.map
       IN MapOrPanic([k \in (DOMAIN mergeTarget) \cup (DOMAIN mapS) |->
                       IF k \notin DOMAIN mapS THEN mergeTarget[k]
                       ELSE IF k \in DOMAIN mergeTarget THEN merge(mergeTarget[k], mapS[k])
                       ELSE mapS[k]])

merge(target, source) ==
  IF source.kind = "nil" THEN target
  ELSE IF target.kind = "nil" THEN PanicV("merge: reflect.TypeOf(nil).Kind()")
  ELSE IF source.kind \notin {"map", "arr"}
  THEN CASE target.kind = "arr" -> ArrV(Append(target.arr, source))
         [] target.kind = "map" ->
              IF StrKey(source.str) \in DOMAIN target.map THEN target
              ELSE MapV(Put(target.map, StrKey(source.str), BoolTrue))
         [] OTHER -> ArrV(<<target, source>>)
  ELSE IF target.kind \notin {"map", "arr"} THEN concat(<<target>>, source)
  ELSE IF target.kind = "arr" /\ source.kind = "arr"
  THEN ArrOrPanic([i \in 1..(IF Len(source.arr) > Len(target.arr)
                             THEN Len(source.arr) ELSE Len(target.arr)) |->
                     IF i > Len(source.arr) THEN target.arr[i]
                     ELSE IF i <= Len(target.arr) THEN merge(target.arr[i], source.arr[i])
                     ELSE source.arr[i]])
  ELSE LET mergeTarget == IF target.kind = "arr" THEN arrayToObj(target.arr) ELSE target.map
           mapS == IF source.kind = "arr" THEN arrayToObj(source.arr) ELSE source.map
       IN MapOrPanic([k \in (DOMAIN mergeTarget) \cup (DOMAIN mapS) |->
                       IF k \notin DOMAIN mapS THEN mergeTarget[k]
                       ELSE IF k \in DOMAIN mergeTarget THEN merge(mergeTarget[k], mapS[k])
                       ELSE mapS[k]])

canBeArray(obj) == \A i \in 0..(Cardinality(DOMAIN obj) - 1) : IntKey(i) \in DOMAIN obj

\* objToArray handing back the only element of a one-entry mapping {0: v}
\* instead of the one-element sequence
objToArrayUnwrap(obj) ==
  IF obj.kind = "nil" THEN PanicV("objToArray: reflect.TypeOf(nil).Kind()")
  ELSE IF obj.kind # "map" THEN obj
  ELSE IF canBeArray(obj.map)
       THEN IF Cardinality(DOMAIN obj.map) = 1 THEN obj.map[IntKey(0)]
            ELSE ArrV([i \in 1..Cardinality(DOMAIN obj.map) |-> obj.map[IntKey(i - 1)]])
       ELSE obj

objToArray(obj) ==
  IF obj.kind = "nil" THEN PanicV("objToArray: reflect.TypeOf(nil).Kind()")
  ELSE IF obj.kind # "map" THEN obj
  ELSE IF canBeArray(obj.map)
       THEN ArrV([i \in 1..Cardinality(DOMAIN obj.map) |-> obj.map[IntKey(i - 1)]])
       ELSE obj

-----------------------------------------------------------------------------
(* Encoder: Stringify                                                      *)

defaultEncoder ==
  [addQueryPrefix |-> FALSE, allowEmptyArrays |-> FALSE, arrayFormat |-> "indices",
   delimiter |-> "&", encode |-> TRUE, skipNulls |-> FALSE, strictNullHandling |-> FALSE]

\* fmt.Sprint of a map key
KeyStr(k) == IF k.int THEN Itoa(k.i) ELSE k.s

\* url.QueryEscape, then "+" replaced by "%20"
RECURSIVE urlEncode(_)
urlEncode(s) ==
  IF Len(s) = 0 THEN "" ELSE EscapeOf(At(s, 0)) \o urlEncode(Slice(s, 1, Len(s)))

encodeKey(e, key) == IF ~e.encode THEN key ELSE urlEncode(key)

encodeValue(e, value) == IF ~e.encode THEN value ELSE urlEncode(value)

buildKey(prefix, key) == IF prefix = "" THEN key ELSE prefix \o "[" \o key \o "]"

\* the orders in which a Go range statement can visit a set of map keys
Perms(S) == {p \in [1..Cardinality(S) -> S] : \A i, j \in 1..Cardinality(S) : p[i] = p[j] => i = j}

\* every concatenation that takes one sequence from each set of a list of sets
RECURSIVE ConcatChoices(_)
ConcatChoices(sets) ==
  IF Len(sets) = 0 THEN {<<>>}
  ELSE {h \o t : h \in Head(sets), t \in ConcatChoices(Tail(sets))}

RECURSIVE Join(_, _)
Join(parts, sep) ==
  IF Len(parts) = 0 THEN ""
  ELSE IF Len(parts) = 1 THEN parts[1]
  ELSE parts[1] \o sep \o Join(Tail(parts), sep)

\* the order fmt prints map keys in: integers by value, strings by their text
\* (which of the two key types comes first is fixed by the build; ints here)
Alphabet == "0123456789abcdefghijklmnopqrstuvwxyz"

RECURSIVE StrLess(_, _)
StrLess(a, b) ==
  IF Len(b) = 0 THEN FALSE
  ELSE IF Len(a) = 0 THEN TRUE
  ELSE IF At(a, 0) = At(b, 0) THEN StrLess(Slice(a, 1, Len(a)), Slice(b, 1, Len(b)))
  ELSE Index(Alphabet, At(a, 0)) < Index(Alphabet, At(b, 0))

KeyLess(k1, k2) ==
  IF k1.int /\ k2.int THEN k1.i < k2.i
  ELSE IF ~k1.int /\ ~k2.int THEN StrLess(k1.s, k2.s)
  ELSE k1.int

SortedKeys(S) ==
  CHOOSE p \in Perms(S) : \A i, j \in 1..Len(p) : i < j => KeyLess(p[i], p[j])

\* fmt.Sprint(value)
RECURSIVE GoSprint(_)
GoSprint(value) ==
  CASE value.kind = "nil" -> "<nil>"
    [] value.kind = "arr" ->
         "[" \o Join([i \in 1..Len(value.arr) |-> GoSprint(value.arr[i])], " ") \o "]"
    [] value.kind = "map" ->
         "map[" \o Join([i \in 1..Cardinality(DOMAIN value.map) |->
                          KeyStr(SortedKeys(DOMAIN value.map)[i]) \o ":"
                          \o GoSprint(value.map[SortedKeys(DOMAIN value.map)[i]])], " ") \o "]"
    [] OTHER -> value.str

valueToString(value) == IF value.kind = "nil" THEN "" ELSE GoSprint(value)

\* stringifyValue, stringifyArray and stringifyMap: the set of part lists the
\* call can return, one per visiting order of the maps inside value
RECURSIVE stringifyValue(_, _, _, _)
stringifyValue(e, key, value, prefix) ==
  CASE value.kind = "nil" ->
         IF e.strictNullHandling THEN {<<encodeKey(e, buildKey(prefix, key))>>}
         ELSE {<<encodeKey(e, buildKey(prefix, key)) \o "=">>}
    [] value.kind = "arr" ->
         IF Len(value.arr) = 0
         THEN IF ~e.allowEmptyArrays THEN {<<>>}
              ELSE IF e.arrayFormat = "brackets"
                   THEN {<<encodeKey(e, buildKey(prefix, key)) \o "%5B%5D">>}
                   ELSE {<<encodeKey(e, buildKey(prefix, key)) \o "[]">>}
         ELSE CASE e.arrayFormat = "brackets" ->
                     {[i \in 1..Len(value.arr) |->
                         encodeKey(e, buildKey(prefix, key)) \o "%5B%5D" \o "="
                         \o encodeValue(e, valueToString(value.arr[i]))]}
                [] e.arrayFormat = "comma" ->
                     {<<encodeKey(e, buildKey(prefix, key)) \o "="
                        \o encodeValue(e, Join([i \in 1..Len(value.arr) |->
                                                  valueToString(value.arr[i])], ","))>>}
                [] e.arrayFormat = "repeat" ->
                     {[i \in 1..Len(value.arr) |->
                         encodeKey(e, buildKey(prefix, key)) \o "="
                         \o encodeValue(e, valueToString(value.arr[i]))]}
                [] OTHER ->
                     ConcatChoices([i \in 1..Len(value.arr) |->
                       stringifyValue(e, Itoa(i - 1), value.arr[i], buildKey(prefix, key))])
    [] value.kind = "map" ->
         UNION {ConcatChoices([i \in 1..Len(p) |->
                   IF e.skipNulls /\ value.map[p[i]].kind = "nil" THEN {<<>>}
                   ELSE stringifyValue(e, KeyStr(p[i]), value.map[p[i]],
                                       IF prefix = "" THEN key ELSE buildKey(prefix, key))])
                : p \in Perms(DOMAIN value.map)}
    [] OTHER -> {<<encodeKey(e, buildKey(prefix, key)) \o "=" \o encodeValue(e, value.str)>>}

\* Stringify failing on every input that is neither nil nor a mapping
StringifyFailsOnFalsy(input) == input.kind \notin {"nil", "map"}

\* Stringify returns an error: the input is not nil, false or the int 0 and is
\* of none of the map types of the type switch
StringifyFails(input) ==
  /\ input.kind \notin {"nil", "map"}
  /\ input # BoolFalse
  /\ input # IntV("0")

\* the strings Stringify can return
Stringify(e, input) ==
  IF input.kind # "map" \/ Cardinality(DOMAIN input.map) = 0 THEN {""}
  ELSE {IF e.addQueryPrefix /\ Join(parts, e.delimiter) # ""
        THEN "?" \o Join(parts, e.delimiter) ELSE Join(parts, e.delimiter)
        : parts \in UNION {ConcatChoices([i \in 1..Len(p) |->
                              IF e.skipNulls /\ input.map[p[i]].kind = "nil" THEN {<<>>}
                              ELSE stringifyValue(e, KeyStr(p[i]), input.map[p[i]], "")])
                           : p \in Perms(DOMAIN input.map)}}

-----------------------------------------------------------------------------
(* Decoder: Parse, as the steps of one call                                *)

defaultDecoder ==
  [allowDots |-> FALSE, allowEmptyArrays |-> FALSE, arrayLimit |-> 20, comma |-> FALSE,
   decodeDotInKeys |-> FALSE, delimiter |-> "&", depth |-> 5, duplicates |-> "combine",
   ignoreQueryPrefix |-> FALSE, parameterLimit |-> 1000, parseArrays |-> TRUE,
   strictNullHandling |-> FALSE]

\* one iteration of the loop `for k, v := range tempObj` of Parse
foldOne(d, t, k, v) ==
  IF IsPanic(parseKeys(d, k.s, v)) THEN parseKeys(d, k.s, v)
  ELSE merge(t, parseKeys(d, k.s, v))

\* the loop of Parse run over tempObj in a given visiting order
RECURSIVE foldInOrder(_, _, _, _, _)
foldInOrder(d, tempObj, order, i, t) ==
  IF i > Len(order) \/ IsPanic(t) THEN t
  ELSE foldInOrder(d, tempObj, order, i + 1, foldOne(d, t, order[i], tempObj[order[i]]))

\* the closing loop of Parse: objToArray on every value directly under the root
arrayPass(obj) == MapOrPanic([k \in DOMAIN obj.map |-> objToArray(obj.map[k])])

\* what Parse returns (or how it aborts) when the range visits tempObj in `order`
parseOutcome(d, tempObj, order) ==
  IF IsPanic(foldInOrder(d, tempObj, order, 1, MapV(EmptyMap)))
  THEN foldInOrder(d, tempObj, order, 1, MapV(EmptyMap))
  ELSE arrayPass(foldInOrder(d, tempObj, order, 1, MapV(EmptyMap)))

-----------------------------------------------------------------------------
(* Bounds and the inputs explored                                          *)

MaxPairs == 2

MaxIdx == 3

MaxDup == 3

MaxGroups == 6

MaxLimPairs == 3

MaxRTLen == 2

\* sequences over S of length lo..hi
SeqsOf(S, lo, hi) == UNION {[1..n -> S] : n \in lo..hi}

Item(i, k, v) == [i |-> i, k |-> k, v |-> v]

\* decoder configurations: the default and single-option departures from it
Configs ==
  {defaultDecoder,
   [defaultDecoder EXCEPT !.depth = 0],
   [defaultDecoder EXCEPT !.arrayLimit = 0],
   [defaultDecoder EXCEPT !.strictNullHandling = TRUE],
   [defaultDecoder EXCEPT !.comma = TRUE],
   [defaultDecoder EXCEPT !.parseArrays = FALSE],
   [defaultDecoder EXCEPT !.allowDots = TRUE],
   [defaultDecoder EXCEPT !.allowEmptyArrays = TRUE],
   [defaultDecoder EXCEPT !.duplicates = "first"],
   [defaultDecoder EXCEPT !.duplicates = "last"],
   [defaultDecoder EXCEPT !.parameterLimit = 0],
   [defaultDecoder EXCEPT !.parameterLimit = 1],
   [defaultDecoder EXCEPT !.ignoreQueryPrefix = TRUE]}

\* fragments (text between delimiters) of the free-form inputs
Fragments ==
  {"a=d", "a[b]=c", "", "a[100]=b", "a[b][0]=c", "a[b][1]=d", "a", "[0]=x",
   "a[]=x", "a=x,y", "0=x", "a.b=c"}

\* the fragments the options act on, used under the non-default configurations
OptionFragments == {"a=d", "a[b]=c", "a", "a[]=x", "a=x,y", "a.b=c"}

FreeScenarios ==
  {[fam |-> "free", d |-> defaultDecoder,
    items |-> [j \in 1..Len(fs) |-> Item(0, fs[j], "")], val |-> Nil]
   : fs \in SeqsOf(Fragments, 1, MaxPairs)}
  \cup
  {[fam |-> "free", d |-> c, items |-> [j \in 1..Len(fs) |-> Item(0, fs[j], "")], val |-> Nil]
   : c \in Configs \ {defaultDecoder}, fs \in SeqsOf(OptionFragments, 1, MaxPairs)}

\* pairs a[i][k_i]=v_i with the indices 0..n-1 in any textual order
IdxKeys == {"b", "d"}

IdxVal(k) == IF k = "b" THEN "c" ELSE "e"

IdxScenarios ==
  UNION {{[fam |-> "idx", d |-> defaultDecoder,
           items |-> [j \in 1..n |-> Item(p[j], ks[p[j] + 1], IdxVal(ks[p[j] + 1]))], val |-> Nil]
          : p \in Perms(0..(n - 1)), ks \in [1..n -> IdxKeys]}
         : n \in 1..MaxIdx}

\* one flat key repeated: item.k is the flat key, item.v the raw value
DupKeys == {"a", "a[]"}

DupVals == {"x", "y", "z", "x,y"}

DupScenarios ==
  {[fam |-> "dup", d |-> c, items |-> [j \in 1..Len(vs) |-> Item(0, k, vs[j])], val |-> Nil]
   : c \in {defaultDecoder, [defaultDecoder EXCEPT !.comma = TRUE]},
     k \in DupKeys, vs \in SeqsOf(DupVals, 2, MaxDup)}

\* one pair whose key is the root "a" followed by bracket groups: item.k is the
\* text inside a group
GroupNames == {"b", "0"}

DepthChoices == {1, 2, 3, 5}

NamedGroups(names) == [j \in 1..Len(names) |-> Item(0, names[j], "")]

DepthScenarios ==
  {[fam |-> "depth", d |-> [defaultDecoder EXCEPT !.depth = n], items |-> NamedGroups(gs),
    val |-> StrV("i")]
   : n \in DepthChoices, gs \in SeqsOf(GroupNames, 1, MaxGroups)}
  \cup {[fam |-> "depth", d |-> defaultDecoder,
         items |-> NamedGroups(<<"b", "c", "d", "e", "f", "g", "h">>), val |-> StrV("i")]}
  \cup {[fam |-> "depth", d |-> [defaultDecoder EXCEPT !.depth = n],
         items |-> NamedGroups(<<"b", "c", "d">>), val |-> StrV("e")] : n \in 1..3}

\* inputs around the array limit
LimFragments == {"a[]=x", "a[b]=c", "a[0]=x", "a[1]=y", "a[-1]=x"}

LimScenarios ==
  {[fam |-> "lim", d |-> [defaultDecoder EXCEPT !.arrayLimit = n],
    items |-> [j \in 1..Len(fs) |-> Item(0, fs[j], "")], val |-> Nil]
   : n \in 0..1, fs \in SeqsOf(LimFragments, 1, MaxLimPairs)}

\* structured values handed to Stringify
RTKeys == {StrKey("b"), StrKey("c")}

MapsOver(K, V) == UNION {[S -> V] : S \in SUBSET K}

RTLevel0 == {StrV("x")}

RTLevel1 ==
  RTLevel0 \cup {ArrV(a) : a \in SeqsOf(RTLevel0, 0, MaxRTLen)}
           \cup {MapV(m) : m \in MapsOver(RTKeys, RTLevel0)}

\* elements of the sequences that hold collections
RTElems == {StrV("x"), ArrV(<<StrV("x")>>), MapV([k \in {StrKey("b")} |-> StrV("x")])}

RTLevel2 ==
  RTLevel1 \cup {ArrV(a) : a \in SeqsOf(RTElems, 1, MaxRTLen)}
           \cup {MapV(m) : m \in MapsOver(RTKeys, RTLevel1)}

RTValues ==
  {MapV(m) : m \in MapsOver({StrKey("a")}, RTLevel2)}
  \cup {MapV(m) : m \in [{StrKey("a"), StrKey("b")} -> RTLevel1]}

RTScenarios ==
  {[fam |-> "rt", d |-> defaultDecoder, items |-> <<>>, val |-> v] : v \in RTValues}

\* inputs that exercise one option each
Case(c, fs) ==
  [fam |-> "case", d |-> c, items |-> [j \in 1..Len(fs) |-> Item(0, fs[j], "")], val |-> Nil]

CaseScenarios ==
  {Case([defaultDecoder EXCEPT !.depth = 0], fs)
   : fs \in SeqsOf({"[0]=x", "0=x", "a[b]=c"}, 1, MaxPairs)}
  \cup {Case([defaultDecoder EXCEPT !.comma = TRUE], <<f>>)
        : f \in {"a=x%2Cy", "a=x%2Cy,z", "a=x,y", "a=x"}}
  \cup {Case([defaultDecoder EXCEPT !.allowEmptyArrays = b], fs)
        : b \in BOOLEAN, fs \in SeqsOf({"a[]", "a[]=", "b[]=x"}, 1, MaxPairs)}
  \cup {Case([defaultDecoder EXCEPT !.strictNullHandling = b], fs)
        : b \in BOOLEAN, fs \in SeqsOf({"a", "a=", "a=d", "b"}, 1, MaxPairs)}

\* inputs cut by the parameter limit: item.k is a fragment
MaxParamLimit == 3

PLimFragments == {"a=b", "c=d", "e=f", "g"}

PLimScenarios ==
  {[fam |-> "plim", d |-> [defaultDecoder EXCEPT !.parameterLimit = n],
    items |-> [j \in 1..Len(fs) |-> Item(0, fs[j], "")], val |-> Nil]
   : n \in 0..MaxParamLimit, fs \in SeqsOf(PLimFragments, 1, MaxParamLimit)}

\* one flat key repeated under the policies first and last: item.v is a value
PolScenarios ==
  {[fam |-> "pol", d |-> [defaultDecoder EXCEPT !.duplicates = p],
    items |-> [j \in 1..Len(vs) |-> Item(0, "a", vs[j])], val |-> Nil]
   : p \in {"first", "last"}, vs \in SeqsOf({"x", "y", "z"}, 2, MaxDup)}

\* one pair a=v whose value holds well-formed or malformed percent-encoding
PctValues == {"%", "x+%", "%zz", "+%2", "x%2Cy", "x+y", "x"}

PctScenarios ==
  {[fam |-> "pct", d |-> defaultDecoder, items |-> <<Item(0, "a", v)>>, val |-> Nil]
   : v \in PctValues}

\* one pair written as a key, "=" and a value that may hold "=" itself
SplitKeys == {"a[<=>]", "foo", "a[b]", "a"}

SplitVals == {"=23", "bar=baz", "", "x"}

SplitScenarios ==
  {[fam |-> "split", d |-> defaultDecoder, items |-> <<Item(0, k, v)>>, val |-> Nil]
   : k \in SplitKeys, v \in SplitVals}

\* the key a[b] followed by text outside any bracket group: item.k is that text
SegRemainders == {"c", "cd", "cde"}

SegScenarios ==
  {[fam |-> "seg", d |-> defaultDecoder, items |-> <<Item(0, r, "x")>>, val |-> Nil]
   : r \in SegRemainders}

\* pairs that put a scalar and keyed paths under one top-level key
GrowFragments == {"a[d]=c", "a=d", "a[b]=c", "b=x"}

GrowScenarios ==
  {[fam |-> "grow", d |-> defaultDecoder,
    items |-> [j \in 1..Len(fs) |-> Item(0, fs[j], "")], val |-> Nil]
   : fs \in SeqsOf(GrowFragments, 1, MaxPairs)}

Scenarios ==
  FreeScenarios \cup IdxScenarios \cup DupScenarios \cup DepthScenarios \cup LimScenarios
  \cup RTScenarios \cup CaseScenarios \cup PLimScenarios \cup PolScenarios
  \cup PctScenarios \cup SplitScenarios \cup SegScenarios \cup GrowScenarios

\* the text of a scenario
RECURSIVE GroupsText(_, _)
GroupsText(items, from) ==
  IF from > Len(items) THEN ""
  ELSE "[" \o items[from].k \o "]" \o GroupsText(items, from + 1)

ItemText(sc, j) ==
  CASE sc.fam = "idx" -> "a[" \o Itoa(sc.items[j].i) \o "][" \o sc.items[j].k \o "]=" \o sc.items[j].v
    [] sc.fam \in {"dup", "pol", "pct", "split"} -> sc.items[j].k \o "=" \o sc.items[j].v
    [] sc.fam = "seg" -> "a[b]" \o sc.items[j].k \o "=" \o sc.items[j].v
    [] OTHER -> sc.items[j].k

InputText(sc) ==
  IF sc.fam = "depth" THEN "a" \o GroupsText(sc.items, 1) \o "=" \o sc.val.str
  ELSE Join([j \in 1..Len(sc.items) |-> ItemText(sc, j)], sc.d.delimiter)

-----------------------------------------------------------------------------
(* State machine                                                           *)

VARIABLES
  scn,      \* the scenario the run was started from
  d,        \* the Decoder
  e,        \* the Encoder
  input,    \* the argument of Parse
  pc,       \* "encode", "start", "fold", "done" or "panic"
  tempObj,  \* Parse: the flat map returned by parseValues
  pending,  \* Parse: the keys of tempObj the range has not visited yet
  obj,      \* Parse: the accumulator
  newObj,   \* Parse: the last result of parseKeys
  ret,      \* the value Parse returned
  abort     \* the reason of the run-time abort, "" if none

vars == <<scn, d, e, input, pc, tempObj, pending, obj, newObj, ret, abort>>

Init ==
  /\ scn \in Scenarios
  /\ d = scn.d
  /\ e = defaultEncoder
  /\ input = IF scn.fam = "rt" THEN "" ELSE InputText(scn)
  /\ pc = IF scn.fam = "rt" THEN "encode" ELSE "start"
  /\ tempObj = EmptyMap
  /\ pending = {}
  /\ obj = MapV(EmptyMap)
  /\ newObj = Nil
  /\ ret = Nil
  /\ abort = ""

\* Encoder.Stringify on the scenario's value; its result is handed to Parse
StringifyCall ==
  /\ pc = "encode"
  /\ \E str \in Stringify(e, scn.val) : input' = str
  /\ pc' = "start"
  /\ UNCHANGED <<scn, d, e, tempObj, pending, obj, newObj, ret, abort>>

\* Parse up to the start of its range loop
ParseBegin ==
  /\ pc = "start"
  /\ IF Len(input) = 0
     THEN /\ ret' = MapV(EmptyMap)
          /\ pc' = "done"
          /\ UNCHANGED <<tempObj, pending, abort>>
     ELSE IF IsPanic(parseValues(d, input))
          THEN /\ abort' = parseValues(d, input).str
               /\ pc' = "panic"
               /\ UNCHANGED <<tempObj, pending, ret>>
          ELSE /\ tempObj' = parseValues(d, input).map
               /\ pending' = DOMAIN parseValues(d, input).map
               /\ pc' = "fold"
               /\ UNCHANGED <<ret, abort>>
  /\ UNCHANGED <<scn, d, e, input, obj, newObj>>

\* one iteration of the range loop, on any key not visited yet
ParseFold ==
  /\ pc = "fold"
  /\ \E k \in pending :
       /\ newObj' = parseKeys(d, k.s, tempObj[k])
       /\ IF IsPanic(foldOne(d, obj, k, tempObj[k]))
          THEN /\ abort' = foldOne(d, obj, k, tempObj[k]).str
               /\ pc' = "panic"
               /\ UNCHANGED <<obj, pending>>
          ELSE /\ obj' = foldOne(d, obj, k, tempObj[k])
               /\ pending' = pending \ {k}
               /\ UNCHANGED <<pc, abort>>
  /\ UNCHANGED <<scn, d, e, input, tempObj, ret>>

\* the closing loop of Parse and its return
ParseReturn ==
  /\ pc = "fold"
  /\ pending = {}
  /\ IF IsPanic(arrayPass(obj))
     THEN /\ abort' = arrayPass(obj).str
          /\ pc' = "panic"
          /\ UNCHANGED ret
     ELSE /\ ret' = arrayPass(obj)
          /\ pc' = "done"
          /\ UNCHANGED abort
  /\ UNCHANGED <<scn, d, e, input, tempObj, pending, obj, newObj>>

Next == StringifyCall \/ ParseBegin \/ ParseFold \/ ParseReturn

Spec == Init /\ [][Next]_vars

TypeOK ==
  /\ pc \in {"encode", "start", "fold", "done", "panic"}
  /\ pending \subseteq DOMAIN tempObj
  /\ obj.kind = "map"
  /\ (pc = "panic") = (abort # "")

-----------------------------------------------------------------------------
(* objToArray called on its own, twice in a row                            *)

MaxCanonKey == 2

CanonKeys == {IntKey(i) : i \in 0..MaxCanonKey} \cup {StrKey("0"), StrKey("b")}

CanonLeaves == {StrV("x"), StrV("y"), MapV(IntKey(0) :> StrV("x"))}

\* the arguments: nil, scalars, sequences, and mappings over every mix of keys
CanonValues ==
  {Nil, StrV("x"), BoolTrue}
  \cup {ArrV(a) : a \in SeqsOf(CanonLeaves, 0, MaxCanonKey)}
  \cup {MapV(m) : m \in MapsOver(CanonKeys, CanonLeaves)}

\* here scn.val is the argument, newObj the result of the first call and ret the
\* result of the second
InitCanon ==
  /\ scn \in {[fam |-> "canon", d |-> defaultDecoder, items |-> <<>>, val |-> v] : v \in CanonValues}
  /\ d = scn.d
  /\ e = defaultEncoder
  /\ input = ""
  /\ pc = "canon"
  /\ tempObj = EmptyMap
  /\ pending = {}
  /\ obj = MapV(EmptyMap)
  /\ newObj = Nil
  /\ ret = Nil
  /\ abort = ""

\* objToArray(v)
ObjToArrayCall ==
  /\ pc = "canon"
  /\ IF IsPanic(objToArray(scn.val))
     THEN /\ abort' = objToArray(scn.val).str
          /\ pc' = "panic"
          /\ UNCHANGED newObj
     ELSE /\ newObj' = objToArray(scn.val)
          /\ pc' = "once"
          /\ UNCHANGED abort
  /\ UNCHANGED <<scn, d, e, input, tempObj, pending, obj, ret>>

\* objToArray on the result of the first call
ObjToArrayAgain ==
  /\ pc = "once"
  /\ IF IsPanic(objToArray(newObj))
     THEN /\ abort' = objToArray(newObj).str
          /\ pc' = "panic"
          /\ UNCHANGED ret
     ELSE /\ ret' = objToArray(newObj)
          /\ pc' = "twice"
          /\ UNCHANGED abort
  /\ UNCHANGED <<scn, d, e, input, tempObj, pending, obj, newObj>>

NextCanon == ObjToArrayCall \/ ObjToArrayAgain

SpecCanon == InitCanon /\ [][NextCanon]_vars

-----------------------------------------------------------------------------
(* Encoder.Stringify called on its own                                     *)

MaxEncLen == 2

ArrayFormats == {"indices", "brackets", "repeat", "comma"}

\* encoders built with WithArrayFormat, WithSkipNulls and WithStrictNullHandling
EncConfigs ==
  {[defaultEncoder EXCEPT !.arrayFormat = f, !.skipNulls = sk, !.strictNullHandling = st]
   : f \in ArrayFormats, sk \in BOOLEAN, st \in BOOLEAN}

\* elements of a sequence: a scalar, nil, a sequence and a mapping
EncElems ==
  {StrV("b"), Nil, ArrV(<<StrV("x"), StrV("y")>>), MapV(StrKey("b") :> StrV("c"))}

EncBCD == ArrV(<<StrV("b"), StrV("c"), StrV("d")>>)

EncLeaves ==
  {Nil, StrV("b"), MapV(StrKey("b") :> Nil), MapV(StrKey("b") :> StrV("c")), EncBCD}
  \cup {ArrV(a) : a \in SeqsOf(EncElems, 0, MaxEncLen)}

\* the arguments: values that are no mapping, the empty mapping, and mappings
\* with the one key "a"
EncInputs ==
  {Nil, StrV("x"), BoolTrue, BoolFalse, IntV("0"), IntV("1"), ArrV(<<StrV("x")>>),
   MapV(EmptyMap)}
  \cup {MapV(StrKey("a") :> v) : v \in EncLeaves}

\* here scn.val is the argument and input the returned string
InitEnc ==
  /\ scn \in {[fam |-> "enc", d |-> defaultDecoder, items |-> <<>>, val |-> v] : v \in EncInputs}
  /\ d = scn.d
  /\ e \in EncConfigs
  /\ input = ""
  /\ pc = "stringify"
  /\ tempObj = EmptyMap
  /\ pending = {}
  /\ obj = MapV(EmptyMap)
  /\ newObj = Nil
  /\ ret = Nil
  /\ abort = ""

\* e.Stringify(v): pc "failed" stands for a non-nil error
StringifyOnly ==
  /\ pc = "stringify"
  /\ IF StringifyFails(scn.val)
     THEN /\ abort' = "unsupported input type"
          /\ pc' = "failed"
          /\ UNCHANGED input
     ELSE /\ \E str \in Stringify(e, scn.val) : input' = str
          /\ pc' = "encoded"
          /\ UNCHANGED abort
  /\ UNCHANGED <<scn, d, e, tempObj, pending, obj, newObj, ret>>

NextEnc == StringifyOnly

SpecEnc == InitEnc /\ [][NextEnc]_vars

-----------------------------------------------------------------------------
(* merge called on its own                                                 *)

MaxMergeLen == 2

MergeScalars == {StrV("b"), StrV("d")}

MergeKeys == {StrKey("b"), StrKey("d"), IntKey(0)}

\* the arguments: nil, scalars, sequences of scalars and mappings
MergeValues ==
  {Nil} \cup MergeScalars
  \cup {ArrV(a) : a \in SeqsOf(MergeScalars, 0, MaxMergeLen)}
  \cup {MapV(m) : m \in MapsOver(MergeKeys, {StrV("c")})}

\* here obj is the target, newObj the source and ret the returned value
InitMerge ==
  /\ scn = [fam |-> "merge", d |-> defaultDecoder, items |-> <<>>, val |-> Nil]
  /\ d = scn.d
  /\ e = defaultEncoder
  /\ input = ""
  /\ pc = "merge"
  /\ tempObj = EmptyMap
  /\ pending = {}
  /\ obj \in MergeValues
  /\ newObj \in MergeValues
  /\ ret = Nil
  /\ abort = ""

\* merge(target, source)
MergeCall ==
  /\ pc = "merge"
  /\ IF IsPanic(merge(obj, newObj))
     THEN /\ abort' = merge(obj, newObj).str
          /\ pc' = "panic"
          /\ UNCHANGED ret
     ELSE /\ ret' = merge(obj, newObj)
          /\ pc' = "merged"
          /\ UNCHANGED abort
  /\ UNCHANGED <<scn, d, e, input, tempObj, pending, obj, newObj>>

NextMerge == MergeCall

SpecMerge == InitMerge /\ [][NextMerge]_vars

-----------------------------------------------------------------------------
(* Properties                                                              *)

Obj1(k, v) == MapV(StrKey(k) :> v)

\* how the run ended, with the reason of an abort left out
Normal(v) == IF IsPanic(v) THEN PanicV("") ELSE v

Outcome == IF pc = "panic" THEN PanicV("") ELSE ret

\* array recognition as the specification describes it: children first, then
\* every mapping whose keys are exactly the integers 0..n-1, n >= 1
RECURSIVE Canonicalize(_)
Canonicalize(v) ==
  CASE v.kind = "arr" -> ArrV([i \in 1..Len(v.arr) |-> Canonicalize(v.arr[i])])
    [] v.kind = "map" ->
         IF /\ DOMAIN v.map # {}
            /\ DOMAIN v.map = {IntKey(i) : i \in 0..(Cardinality(DOMAIN v.map) - 1)}
         THEN ArrV([i \in 1..Cardinality(DOMAIN v.map) |-> Canonicalize(v.map[IntKey(i - 1)])])
         ELSE MapV([k \in DOMAIN v.map |-> Canonicalize(v.map[k])])
    [] OTHER -> v

\* the integer keys of every mapping inside a value
RECURSIVE IntKeysOf(_)
IntKeysOf(v) ==
  CASE v.kind = "arr" -> UNION {IntKeysOf(v.arr[i]) : i \in 1..Len(v.arr)}
    [] v.kind = "map" ->
         {k.i : k \in {x \in DOMAIN v.map : x.int}} \cup UNION {IntKeysOf(v.map[k]) : k \in DOMAIN v.map}
    [] OTHER -> {}

\* some mapping inside v (v included) has exactly the keys 0..n-1, n >= 1
RECURSIVE HasSequenceLikeMapping(_)
HasSequenceLikeMapping(v) ==
  CASE v.kind = "arr" -> \E i \in 1..Len(v.arr) : HasSequenceLikeMapping(v.arr[i])
    [] v.kind = "map" ->
         \/ /\ DOMAIN v.map # {}
            /\ DOMAIN v.map = {IntKey(i) : i \in 0..(Cardinality(DOMAIN v.map) - 1)}
         \/ \E k \in DOMAIN v.map : HasSequenceLikeMapping(v.map[k])
    [] OTHER -> FALSE

\* C1: no input and no configuration drives Parse into a run-time abort.
C1_ParseNeverAborts == pc # "panic"

\* C2: for a fixed input and configuration the outcome of Parse is the same
\* whatever order the range loop visits the flat pairs in.
C2_ParseDeterministic ==
  (pc \in {"done", "panic"} /\ tempObj # EmptyMap) =>
    \A order \in Perms(DOMAIN tempObj) : Normal(parseOutcome(d, tempObj, order)) = Outcome

\* C3: Parse(Stringify(v)) = canonicalize(v) for every value v of mappings,
\* sequences and string scalars, empty collections and nested sequences included.
C3_RoundTrip ==
  scn.fam = "rt" => /\ pc # "panic"
                    /\ pc = "done" => ret = Canonicalize(scn.val)

\* C4: the pairs a[i][k_i]=v_i with indices exactly 0..n-1 decode to
\* {a: [{k_0: v_0}, ..., {k_(n-1): v_(n-1)}]} in index order, in whatever order
\* the pairs are written and folded.
C4_Expected(sc) ==
  Obj1("a", ArrV([i \in 1..Len(sc.items) |->
                    LET j == CHOOSE x \in 1..Len(sc.items) : sc.items[x].i = i - 1
                    IN Obj1(sc.items[j].k, StrV(sc.items[j].v))]))

C4_IndexedPathsStitched ==
  scn.fam = "idx" => /\ pc # "panic"
                     /\ pc = "done" => ret = C4_Expected(scn)

C4_Witness ==
  /\ scn.fam = "idx"
  /\ pc = "done"
  /\ input = "a[1][d]=e&a[0][b]=c"
  /\ ret = Obj1("a", ArrV(<<Obj1("b", StrV("c")), Obj1("d", StrV("e"))>>))

\* C5: under duplicates = combine a flat key occurring n >= 2 times decodes to
\* the sequence of its n values in order of occurrence, sequences flattened.
C5_Pieces(sc, j) ==
  IF sc.d.comma /\ sc.items[j].v = "x,y"
  THEN IF sc.items[j].k = "a[]" THEN <<ArrV(<<StrV("x"), StrV("y")>>)>>
       ELSE <<StrV("x"), StrV("y")>>
  ELSE <<StrV(sc.items[j].v)>>

RECURSIVE C5_Expected(_, _)
C5_Expected(sc, j) ==
  IF j > Len(sc.items) THEN <<>> ELSE C5_Pieces(sc, j) \o C5_Expected(sc, j + 1)

GroupKey(name) == IF name = "0" THEN IntKey(0) ELSE StrKey(name)

RECURSIVE C6_Nest(_, _, _, _)
C6_Nest(items, j, depth, val) ==
  IF j > depth THEN Obj1(GroupsText(items, j), val)
  ELSE MapV(GroupKey(items[j].k) :> C6_Nest(items, j + 1, depth, val))

C6_Expected(sc) == Obj1("a", C6_Nest(sc.items, 1, sc.d.depth, sc.val))

C7_CustomDepth ==
  (input = "a[b][c][d]=e" /\ d.depth \in 1..3 /\ pc = "done") =>
    ret = CASE d.depth = 1 -> Obj1("a", Obj1("[b][c][d]", StrV("e")))
            [] d.depth = 2 -> Obj1("a", Obj1("b", Obj1("[c][d]", StrV("e"))))
            [] d.depth = 3 -> Obj1("a", Obj1("b", Obj1("c", Obj1("[d]", StrV("e")))))

\* C8: every integer key in a Parse result lies in 0..arrayLimit.
C8_IntKeysWithinLimit ==
  pc = "done" => \A i \in IntKeysOf(ret) : 0 <= i /\ i <= d.arrayLimit

\* C9: with arrayLimit 20, "a[100]=b" decodes to {a: {100: "b"}} with 100 an
\* integer key.
C9_OverLimitIntKey ==
  (input = "a[100]=b" /\ d = defaultDecoder /\ pc = "done") =>
    ret = Obj1("a", MapV(IntKey(100) :> StrV("b")))

\* C10: no mapping at any depth of a Parse result has exactly the integer keys
\* 0..n-1, n >= 1: each has been rewritten to a sequence.
C10_RecognitionEverywhere ==
  pc = "done" => \A k \in DOMAIN ret.map : ~HasSequenceLikeMapping(ret.map[k])

\* C11: objToArray rewrites a mapping to a sequence exactly when its keys are
\* the integers 0..n-1 and nothing else, element i being the value under key i;
\* every other value, mapping or not, comes back unchanged.
C11_ObjToArrayIff ==
  /\ pc # "panic"
  /\ pc \in {"once", "twice"} =>
       newObj = IF /\ scn.val.kind = "map"
                   /\ DOMAIN scn.val.map
                        = {IntKey(i) : i \in 0..(Cardinality(DOMAIN scn.val.map) - 1)}
                THEN ArrV([i \in 1..Cardinality(DOMAIN scn.val.map) |-> scn.val.map[IntKey(i - 1)]])
                ELSE scn.val

\* C12: for a scalar, a sequence or a mapping with any mix of keys, objToArray
\* applied twice gives what objToArray applied once gives.
C12_CanonicalizeIdempotent ==
  scn.val.kind \in {"str", "bool", "arr", "map"} =>
    /\ pc # "panic"
    /\ pc = "twice" => ret = newObj

C12_Witness ==
  /\ pc = "twice"
  /\ scn.val = MapV((IntKey(0) :> MapV(IntKey(0) :> StrV("x"))) @@ (IntKey(1) :> StrV("y")))
  /\ newObj = ArrV(<<MapV(IntKey(0) :> StrV("x")), StrV("y")>>)
  /\ ret = newObj

\* C13: the value Parse returns is a mapping whose top-level keys are all
\* strings, whatever the input and the configuration.
C13_TopLevelStringKeys ==
  pc = "done" => /\ ret.kind = "map"
                 /\ \A k \in DOMAIN ret.map : ~k.int

\* C14: an empty fragment adds no key: no abort, and no empty-string key in
\* the flat map or in the result.
C14_EmptyFragmentsSkipped ==
  (scn.fam = "free" /\ \E j \in 1..Len(scn.items) : scn.items[j].k = "") =>
    /\ pc # "panic"
    /\ StrKey("") \notin DOMAIN tempObj
    /\ pc = "done" => StrKey("") \notin DOMAIN ret.map

\* C15: in comma mode only a literal comma of the raw value splits it, and the
\* pieces are decoded one by one.
C15_CommaOnRawValue ==
  (d = [defaultDecoder EXCEPT !.comma = TRUE] /\ pc = "done") =>
    /\ input = "a=x%2Cy" => ret = Obj1("a", StrV("x,y"))
    /\ input = "a=x,y" => ret = Obj1("a", ArrV(<<StrV("x"), StrV("y")>>))
    /\ input = "a=x%2Cy,z" => ret = Obj1("a", ArrV(<<StrV("x,y"), StrV("z")>>))

\* C16: a fragment without "=" decodes to nil under strictNullHandling and to
\* "" without it, "key=" decodes to "" in both modes, and Parse returns.
C16_NoValueFragment ==
  /\ d = [defaultDecoder EXCEPT !.strictNullHandling = TRUE] =>
       /\ input \in {"a", "a=", "a=d&b"} => pc # "panic"
       /\ pc = "done" =>
            /\ input = "a" => ret = Obj1("a", Nil)
            /\ input = "a=" => ret = Obj1("a", StrV(""))
            /\ input = "a=d&b" => ret = MapV((StrKey("a") :> StrV("d")) @@ (StrKey("b") :> Nil))
  /\ (d = defaultDecoder /\ pc = "done") =>
       /\ input = "a" => ret = Obj1("a", StrV(""))
       /\ input = "a=" => ret = Obj1("a", StrV(""))

\* C17: with allowEmptyArrays "a[]" and "a[]=" decode to {a: []} and a
\* non-empty value is unaffected; without it "a[]" decodes to {a: [""]}.
C17_AllowEmptyArrays ==
  /\ (d = [defaultDecoder EXCEPT !.allowEmptyArrays = TRUE] /\ pc = "done") =>
       /\ input \in {"a[]", "a[]="} => ret = Obj1("a", ArrV(<<>>))
       /\ input = "a[]&b[]=x" =>
            ret = MapV((StrKey("a") :> ArrV(<<>>)) @@ (StrKey("b") :> ArrV(<<StrV("x")>>)))
  /\ (d = defaultDecoder /\ pc = "done" /\ input = "a[]") =>
       ret = Obj1("a", ArrV(<<StrV("")>>))

\* the first n elements of a sequence
Take(sq, n) == SubSeq(sq, 1, IF n < Len(sq) THEN n ELSE Len(sq))

\* C18: parseValues builds its result from exactly the first
\* min(n, parameterLimit) fragments; what follows them is dropped.
C18_ParameterLimit ==
  scn.fam = "plim" =>
    /\ pc # "panic"
    /\ pc \in {"fold", "done"} =>
         MapV(tempObj) = parseValuesLoop(defaultDecoder,
                           Take([j \in 1..Len(scn.items) |-> scn.items[j].k], d.parameterLimit),
                           1, EmptyMap)

\* C19: duplicates = first keeps the value of the first occurrence of a flat
\* key, duplicates = last the value of its last occurrence.
C19_FirstLast ==
  (scn.fam = "pol" /\ pc \in {"fold", "done"}) =>
    tempObj = (StrKey("a") :> StrV(IF d.duplicates = "first" THEN scn.items[1].v
                                   ELSE scn.items[Len(scn.items)].v))

\* some sequence occurs inside v (v included)
RECURSIVE HasSequence(_)
HasSequence(v) ==
  CASE v.kind = "arr" -> TRUE
    [] v.kind = "map" -> \E k \in DOMAIN v.map : HasSequence(v.map[k])
    [] OTHER -> FALSE

\* C20: with parseArrays off no sequence appears anywhere in a Parse result.
C20_NoSequenceWhenParseArraysOff ==
  (~d.parseArrays /\ pc = "done") => ~HasSequence(ret)

\* the pairs of an encoder output
Parts(str) == IF str = "" THEN <<>> ELSE SplitN(str, "&", -1)

IsBare(part) == ~Contains(part, "=")

IsEmptyValued(part) == Len(part) > 0 /\ At(part, Len(part) - 1) = "="

HasValue(part) == Contains(part, "=") /\ ~IsEmptyValued(part)

BareParts(str) == Cardinality({i \in 1..Len(Parts(str)) : IsBare(Parts(str)[i])})

EmptyValuedParts(str) == Cardinality({i \in 1..Len(Parts(str)) : IsEmptyValued(Parts(str)[i])})

ValuedParts(str) == Cardinality({i \in 1..Len(Parts(str)) : HasValue(Parts(str)[i])})

RECURSIVE SumSeq(_)
SumSeq(ns) == IF Len(ns) = 0 THEN 0 ELSE Head(ns) + SumSeq(Tail(ns))

\* the number of nil leaves of a value
RECURSIVE NilLeaves(_)
NilLeaves(v) ==
  CASE v.kind = "nil" -> 1
    [] v.kind = "arr" -> SumSeq([i \in 1..Len(v.arr) |-> NilLeaves(v.arr[i])])
    [] v.kind = "map" ->
         SumSeq([i \in 1..Cardinality(DOMAIN v.map) |-> NilLeaves(v.map[SortedKeys(DOMAIN v.map)[i]])])
    [] OTHER -> 0

\* the number of scalar leaves of a value
RECURSIVE ScalarLeaves(_)
ScalarLeaves(v) ==
  CASE v.kind = "nil" -> 0
    [] v.kind = "arr" -> SumSeq([i \in 1..Len(v.arr) |-> ScalarLeaves(v.arr[i])])
    [] v.kind = "map" ->
         SumSeq([i \in 1..Cardinality(DOMAIN v.map) |-> ScalarLeaves(v.map[SortedKeys(DOMAIN v.map)[i]])])
    [] OTHER -> 1

\* C21, as amended: Stringify returns an error and no output for a string, a
\* sequence, true and a non-zero int; it returns no error for every mapping
\* and, with the empty string as its output, for nil, false and the int 0.
C21_StringifyErrors ==
  (scn.fam = "enc" /\ pc \in {"encoded", "failed"}) =>
    /\ (pc = "failed") =
         (scn.val.kind \notin {"nil", "map"} /\ scn.val \notin {BoolFalse, IntV("0")})
    /\ pc = "failed" => input = ""
    /\ scn.val \in {Nil, BoolFalse, IntV("0")} => input = ""

C21_Witness ==
  /\ scn.fam = "enc"
  /\ pc = "encoded"
  /\ scn.val = BoolFalse
  /\ input = ""

\* C21 as stated: every input that is no mapping, false and 0 included, gives an
\* error, and every mapping gives none.
C21_Original ==
  (scn.fam = "enc" /\ pc \in {"encoded", "failed"}) =>
    /\ scn.val.kind \notin {"nil", "map"} => pc = "failed"
    /\ scn.val.kind = "map" => pc = "encoded"

\* C22: a nil leaf at any position gives no pair under skipNulls, a bare key
\* under strictNullHandling, and "key=" otherwise (one pair per sequence under
\* the comma format is left aside).
C22_NullLeaves ==
  (scn.fam = "enc" /\ pc = "encoded" /\ scn.val.kind = "map" /\ e.arrayFormat # "comma") =>
    IF e.skipNulls THEN BareParts(input) = 0 /\ EmptyValuedParts(input) = 0
    ELSE IF e.strictNullHandling
         THEN BareParts(input) = NilLeaves(scn.val) /\ EmptyValuedParts(input) = 0
         ELSE EmptyValuedParts(input) = NilLeaves(scn.val) /\ BareParts(input) = 0

\* C23: under indices, brackets and repeat the output has one key=value pair
\* per scalar leaf, also for sequences of mappings and of sequences, and
\* {a: [b, c, d]} gives the four documented strings.
C23_OnePairPerScalarLeaf ==
  (scn.fam = "enc" /\ pc = "encoded" /\ scn.val.kind = "map") =>
    /\ e.arrayFormat # "comma" => ValuedParts(input) = ScalarLeaves(scn.val)
    /\ scn.val = MapV(StrKey("a") :> EncBCD) =>
         Unescape(input) =
           CASE e.arrayFormat = "indices" -> "a[0]=b&a[1]=c&a[2]=d"
             [] e.arrayFormat = "brackets" -> "a[]=b&a[]=c&a[]=d"
             [] e.arrayFormat = "repeat" -> "a=b&a=c&a=d"
             [] e.arrayFormat = "comma" -> "a=b,c,d"


\* C24: when a key or value holds malformed percent-encoding, decodeURI gives
\* back the text exactly as it appeared, '+' included, and parsing goes on.
C24_MalformedPercent ==
  (scn.fam = "pct" /\ ~UnescapeOk(scn.items[1].v)) =>
    /\ pc # "panic"
    /\ pc = "done" => ret = Obj1("a", StrV(scn.items[1].v))

\* C25: the key of a pair ends at the first "]=" (the ']' included) when there
\* is one and at the first '=' otherwise; what follows the '=' is the value.
C25_SplitPoint ==
  scn.fam = "split" =>
    /\ pc # "panic"
    /\ pc \in {"fold", "done"} =>
         tempObj = (StrKey(scn.items[1].k) :> StrV(scn.items[1].v))
    /\ (pc = "done" /\ input = "foo=bar=baz") => ret = Obj1("foo", StrV("bar=baz"))

C25_Witness ==
  /\ scn.fam = "split"
  /\ input = "a[<=>]==23"
  /\ pc = "done"
  /\ tempObj = (StrKey("a[<=>]") :> StrV("=23"))
  /\ ret = Obj1("a", Obj1("<=>", StrV("=23")))

\* C28: the text that follows the last bracket group of a key, one character
\* or more, becomes one literal trailing segment and a key of the result.
C28_RemainderKept ==
  scn.fam = "seg" =>
    /\ pc # "panic"
    /\ pc = "done" => ret = Obj1("a", Obj1("b", Obj1(scn.items[1].k, StrV(scn.items[1].v))))

\* the scalar leaves of a value
RECURSIVE LeavesOf(_)
LeavesOf(v) ==
  CASE v.kind = "arr" -> UNION {LeavesOf(v.arr[i]) : i \in 1..Len(v.arr)}
    [] v.kind = "map" -> UNION {LeavesOf(v.map[k]) : k \in DOMAIN v.map}
    [] v.kind = "nil" -> {}
    [] OTHER -> {v}

\* the keys a scalar was turned into: those holding the value true
RECURSIVE PromotedKeys(_)
PromotedKeys(v) ==
  CASE v.kind = "arr" -> UNION {PromotedKeys(v.arr[i]) : i \in 1..Len(v.arr)}
    [] v.kind = "map" ->
         {StrV(k.s) : k \in {x \in DOMAIN v.map : ~x.int /\ v.map[x] = BoolTrue}}
         \cup UNION {PromotedKeys(v.map[k]) : k \in DOMAIN v.map}
    [] OTHER -> {}

\* C29: during the fold a top-level key of the accumulator stays present after
\* every later merge and in the returned result, and the leaf value of every
\* parsed pair is found in the returned structure.
C29_FoldOnlyGrows ==
  /\ [][(pc = "fold" /\ pc' = "fold") => DOMAIN obj.map \subseteq DOMAIN obj'.map]_vars
  /\ [](pc = "done" /\ scn.fam = "grow" =>
          /\ DOMAIN obj.map \subseteq DOMAIN ret.map
          /\ \A k \in DOMAIN tempObj :
               LeavesOf(tempObj[k]) \subseteq LeavesOf(ret) \cup PromotedKeys(ret))


\* C26: nil is a two-sided identity of merge: merge(acc, nil) returns acc
\* unchanged and merge(nil, addition) returns addition, neither call failing.
C26_NilIdentity ==
  (scn.fam = "merge" /\ pc \in {"merged", "panic"}) =>
    /\ newObj = Nil => (pc = "merged" /\ ret = obj)
    /\ obj = Nil => (pc = "merged" /\ ret = newObj)

\* C27: merge of a scalar accumulator with a mapping returns a mapping that
\* holds every entry of the addition, not a sequence.
C27_ScalarIntoMapping ==
  (scn.fam = "merge" /\ pc \in {"merged", "panic"}
   /\ obj.kind = "str" /\ newObj.kind = "map") =>
    /\ pc = "merged"
    /\ ret.kind = "map"
    /\ \A k \in DOMAIN newObj.map : k \in DOMAIN ret.map /\ ret.map[k] = newObj.map[k]

\* C30: merge of a mapping accumulator with a scalar returns a mapping with the
\* entries of the accumulator unchanged; the scalar is added as a key holding
\* true when it is not a key yet, and nothing changes when it is one.
C30_MappingWithScalar ==
  (scn.fam = "merge" /\ pc \in {"merged", "panic"}
   /\ obj.kind = "map" /\ newObj.kind = "str") =>
    /\ pc = "merged"
    /\ ret.kind = "map"
    /\ \A k \in DOMAIN obj.map : k \in DOMAIN ret.map /\ ret.map[k] = obj.map[k]
    /\ IF StrKey(newObj.str) \in DOMAIN obj.map
       THEN ret = obj
       ELSE /\ DOMAIN ret.map = DOMAIN obj.map \cup {StrKey(newObj.str)}
            /\ ret.map[StrKey(newObj.str)] = BoolTrue

C30_Witness ==
  /\ scn.fam = "merge"
  /\ pc = "merged"
  /\ obj = Obj1("b", StrV("c"))
  /\ newObj = StrV("d")
  /\ ret = MapV((StrKey("b") :> StrV("c")) @@ (StrKey("d") :> BoolTrue))


====
